---- MODULE Spec2Model ----
(***************************************************************************)
(* Model of app.py, the automated deadlock detection tool: the input       *)
(* validator, the detection fixed-point loop (detection form of the        *)
(* Banker's Algorithm), the victim heuristic and the POST handler that     *)
(* chains them and appends to the history table.                           *)
(*                                                                         *)
(* Python lists are modelled as functions over 0..len-1, so that process   *)
(* and resource indices are the program's own 0-based indices.             *)
(***************************************************************************)
EXTENDS Integers, FiniteSets, Sequences, TLC

VARIABLES
    n, m, allocation, request, available,   \* the arguments of the call
    work, finish, found, i, passes,         \* locals of detect_deadlock
    order,                                  \* the visiting order of the current pass
    pc,                                     \* position in the modelled code
    is_deadlock, deadlocked, message,       \* detect_deadlock's return tuple
    suggestions,                            \* suggest_resolution's return value
    verdict,                                \* validate_inputs' return tuple
    form, history, result, calls            \* the POST handler: request.form, the
                                            \* history table, the rendered result and
                                            \* the functions the handler invoked

vars == <<n, m, allocation, request, available, work, finish, found, i, passes,
          order, pc, is_deadlock, deadlocked, message, suggestions, verdict,
          form, history, result, calls>>

inputVars == <<n, m, allocation, request, available>>
detectVars == <<work, finish, found, i, passes, order, is_deadlock, deadlocked, message>>
handlerVars == <<form, history, result, calls>>

----------------------------------------------------------------------------
(* Bounds of the model. *)

MaxN == 2          \* processes in a detection state
MaxM == 2          \* resource classes in a detection state
MaxUnits == 4      \* total units over allocation, request and available
ShapeN == 1        \* n of a state handed to validate_inputs ranges over -1..ShapeN
ShapeM == 1        \* m of a state handed to validate_inputs ranges over -1..ShapeM
MaxHist == 1       \* rows the history table may hold

----------------------------------------------------------------------------
(* Python lists *)

None == "None"

len(l) == Cardinality(DOMAIN l)

range(k) == 0 .. (k - 1)

EmptyList == [x \in {} |-> 0]

\* list.append: the list with one more element at index len(l)
Append0(l, e) == [x \in range(len(l) + 1) |-> IF x < len(l) THEN l[x] ELSE e]

\* sum(row)
RECURSIVE SumUpTo(_, _)
SumUpTo(row, k) == IF k = 0 THEN 0 ELSE SumUpTo(row, k - 1) + row[k - 1]

sum(row) == SumUpTo(row, len(row))

\* [x for x in range(k) if keep[x]], built in index order
RECURSIVE Filter(_, _)
Filter(keep, k) ==
    IF k = 0 THEN EmptyList
    ELSE IF keep[k - 1] THEN Append0(Filter(keep, k - 1), k - 1)
         ELSE Filter(keep, k - 1)

----------------------------------------------------------------------------
(* validate_inputs *)

\* lines 47-60, with the negative-entry scan moved before the length check
\* of available
validate_inputs_entries_first(nn, mm, alloc, req, avail) ==
    IF len(alloc) # nn \/ \E r \in DOMAIN alloc : len(alloc[r]) # mm
    THEN <<FALSE, "Allocation matrix must be n x m.">>
    ELSE IF len(req) # nn \/ \E r \in DOMAIN req : len(req[r]) # mm
    THEN <<FALSE, "Request matrix must be n x m.">>
    ELSE IF \E p \in range(nn) : \E j \in range(mm) : alloc[p][j] < 0 \/ req[p][j] < 0
    THEN <<FALSE, "Values must be non-negative.">>
    ELSE IF len(avail) # mm
    THEN <<FALSE, "Available vector must have m elements.">>
    ELSE IF \E x \in DOMAIN avail : avail[x] < 0
    THEN <<FALSE, "Available values must be non-negative.">>
    ELSE <<TRUE, "">>

\* lines 47-60: the checks in order, the first failure returned.  The scan of
\* lines 53-56 returns the same tuple at whichever entry it stops.
validate_inputs(nn, mm, alloc, req, avail) ==
    IF len(alloc) # nn \/ \E r \in DOMAIN alloc : len(alloc[r]) # mm
    THEN <<FALSE, "Allocation matrix must be n x m.">>
    ELSE IF len(req) # nn \/ \E r \in DOMAIN req : len(req[r]) # mm
    THEN <<FALSE, "Request matrix must be n x m.">>
    ELSE IF len(avail) # mm
    THEN <<FALSE, "Available vector must have m elements.">>
    ELSE IF \E p \in range(nn) : \E j \in range(mm) : alloc[p][j] < 0 \/ req[p][j] < 0
    THEN <<FALSE, "Values must be non-negative.">>
    ELSE IF \E x \in DOMAIN avail : avail[x] < 0
    THEN <<FALSE, "Available values must be non-negative.">>
    ELSE <<TRUE, "">>

----------------------------------------------------------------------------
(* detect_deadlock *)

\* line 76: work = available.copy(), a new list with the same items
ListCopy(l) == [x \in DOMAIN l |-> l[x]]

\* line 77: finish = [False] * n
AllFalse(k) == [x \in range(k) |-> FALSE]

\* line 81 with any(...) in place of all(...)
CanFinishAny(fin, req, wrk, mm, p) ==
    ~fin[p] /\ \E j \in range(mm) : req[p][j] <= wrk[j]

\* line 81: not finish[i] and all(request[i][j] <= work[j] for j in range(m))
CanFinish(fin, req, wrk, mm, p) ==
    ~fin[p] /\ \A j \in range(mm) : req[p][j] <= wrk[j]

\* lines 82-84 with the allocation row subtracted from work
ReleaseConsumes(alloc, req, avail, wrk, fin, mm, p) ==
    [allocation |-> alloc, request |-> req, available |-> avail,
     work |-> [j \in range(mm) |-> wrk[j] - alloc[p][j]],
     finish |-> [fin EXCEPT ![p] = TRUE],
     found |-> TRUE]

\* lines 82-84 with work an alias of available, updated in place
ReleaseInPlace(alloc, req, avail, wrk, fin, mm, p) ==
    [allocation |-> alloc, request |-> req,
     available |-> [j \in range(mm) |-> wrk[j] + alloc[p][j]],
     work |-> [j \in range(mm) |-> wrk[j] + alloc[p][j]],
     finish |-> [fin EXCEPT ![p] = TRUE],
     found |-> TRUE]

\* lines 82-84: the lists and flags after process p is marked finished.  The
\* comprehension builds a new list and rebinds work; finish[p] is set in place
\* in the local finish list; the arguments are only read.
Release(alloc, req, avail, wrk, fin, mm, p) ==
    [allocation |-> alloc, request |-> req, available |-> avail,
     work |-> [j \in range(mm) |-> wrk[j] + alloc[p][j]],
     finish |-> [fin EXCEPT ![p] = TRUE],
     found |-> TRUE]

\* lines 85-86 with the loop also repeated while a process is unfinished
LoopAgainWhileUnfinished(fnd, fin) == fnd \/ \E p \in DOMAIN fin : ~fin[p]

\* lines 85-86: the loop repeats exactly when the pass marked a process
LoopAgain(fnd, fin) == fnd

\* line 87: deadlocked = [i for i in range(n) if not finish[i]]
Unfinished(fin, nn) == Filter([p \in range(nn) |-> ~fin[p]], nn)

\* lines 88-90: the return tuple
DetectReturn(dl) ==
    IF len(dl) > 0
    THEN [is_deadlock |-> TRUE, deadlocked |-> dl,
          message |-> <<"Deadlock detected in processes: ", dl, ".">>]
    ELSE [is_deadlock |-> FALSE, deadlocked |-> EmptyList,
          message |-> <<"No deadlock detected.">>]

\* lines 80-84: one execution of the for loop, from index p on
RECURSIVE ForLoop(_, _, _, _, _, _)
ForLoop(nn, mm, alloc, req, st, p) ==
    IF p >= nn THEN st
    ELSE IF CanFinish(st.finish, req, st.work, mm, p)
         THEN LET r == Release(alloc, req, st.available, st.work, st.finish, mm, p)
              IN ForLoop(nn, mm, alloc, req,
                         [available |-> r.available, work |-> r.work,
                          finish |-> r.finish, found |-> r.found], p + 1)
         ELSE ForLoop(nn, mm, alloc, req, st, p + 1)

\* lines 78-86: the while loop
RECURSIVE WhileLoop(_, _, _, _, _)
WhileLoop(nn, mm, alloc, req, st) ==
    LET after == ForLoop(nn, mm, alloc, req, [st EXCEPT !.found = FALSE], 0)
    IN IF LoopAgain(after.found, after.finish)
       THEN WhileLoop(nn, mm, alloc, req, after)
       ELSE after

\* lines 76-90: the whole call
detect_deadlock(nn, mm, alloc, req, avail) ==
    LET st == WhileLoop(nn, mm, alloc, req,
                        [available |-> avail, work |-> ListCopy(avail),
                         finish |-> AllFalse(nn), found |-> FALSE])
    IN DetectReturn(Unfinished(st.finish, nn))

----------------------------------------------------------------------------
(* suggest_resolution *)

\* line 100 with a scan that also replaces the current best on an equal key
RECURSIVE MinScanLast(_, _, _, _)
MinScanLast(dl, alloc, k, best) ==
    IF k >= len(dl) THEN best
    ELSE IF sum(alloc[dl[k]]) <= sum(alloc[best])
         THEN MinScanLast(dl, alloc, k + 1, dl[k])
         ELSE MinScanLast(dl, alloc, k + 1, best)

\* line 100: min(deadlocked, key=lambda i: sum(allocation[i])).  Python's min
\* scans the list front to back and replaces the current best only by a
\* strictly smaller key, so the first minimal element of the list is returned.
RECURSIVE MinScan(_, _, _, _)
MinScan(dl, alloc, k, best) ==
    IF k >= len(dl) THEN best
    ELSE IF sum(alloc[dl[k]]) < sum(alloc[best])
         THEN MinScan(dl, alloc, k + 1, dl[k])
         ELSE MinScan(dl, alloc, k + 1, best)

MinByAllocationLast(dl, alloc) == MinScanLast(dl, alloc, 1, dl[0])

MinByAllocation(dl, alloc) == MinScan(dl, alloc, 1, dl[0])

\* lines 92-104.  The returned string is the "<br>"-joined list of suggestions;
\* it is kept as the list of its pieces, the recommendation with the victim's
\* index as its second piece.
suggest_resolution(dl, alloc, req) ==
    IF len(dl) = 0 THEN <<"No action required.">>
    ELSE <<"Strategy 1: Terminate one or more deadlocked processes to break the circular wait.",
           "Strategy 2: Preempt resources from a process and rollback.",
           <<"Recommendation: Terminate Process P", MinByAllocation(dl, alloc),
             " (holds fewest resources).">> >>

----------------------------------------------------------------------------
(* The states a call is made with *)

\* the ways to place u units on cells 1..k, cell 0 standing for a unit that
\* is not in the system: the non-decreasing sequences of u cell numbers
RECURSIVE Placements(_, _)
Placements(u, k) ==
    IF u = 0 THEN {<<>>}
    ELSE LET fewer == Placements(u - 1, k) IN
         {Append(q[1], q[2]) :
            q \in {r \in fewer \X (0 .. k) :
                     Len(r[1]) = 0 \/ r[1][Len(r[1])] <= r[2]}}

\* the ways to place at most t units on k cells
CellsUpTo(k, t) == Placements(t, k)

\* the units a placement puts on cell c
UnitsOn(cells, c) == Cardinality({u \in 1 .. Len(cells) : cells[u] = c})

MatrixOf(cells, nn, mm, base) ==
    [p \in range(nn) |-> [j \in range(mm) |-> UnitsOn(cells, base + p * mm + j + 1)]]

VectorOf(cells, mm, base) == [j \in range(mm) |-> UnitsOn(cells, base + j + 1)]

\* the locals of detect_deadlock before the call, and the values not yet returned
NotCalled ==
    /\ work = EmptyList /\ finish = EmptyList /\ found = FALSE /\ i = 0
    /\ passes = 0 /\ order = EmptyList
    /\ is_deadlock = FALSE /\ deadlocked = EmptyList /\ message = <<>>
    /\ suggestions = <<>>

NoValidation == verdict = <<>>

NoHandler == form = <<>> /\ history = EmptyList /\ result = None /\ calls = {}

\* a valid state: n x m matrices and an m-vector of naturals (what
\* validate_inputs accepts, the precondition of detect_deadlock)
ValidStateInit ==
    \E nn \in 0 .. MaxN, mm \in 0 .. MaxM :
        \E cells \in CellsUpTo(2 * nn * mm + mm, MaxUnits) :
            /\ n = nn /\ m = mm
            /\ allocation = MatrixOf(cells, nn, mm, 0)
            /\ request = MatrixOf(cells, nn, mm, nn * mm)
            /\ available = VectorOf(cells, mm, 2 * nn * mm)

Init ==
    /\ ValidStateInit
    /\ NotCalled /\ NoValidation /\ NoHandler
    /\ pc = "call"

----------------------------------------------------------------------------
(* detect_deadlock, statement by statement, followed by the handler's call *)
(* of suggest_resolution on its result (index, lines 164-166)              *)

\* range(n) as the visiting order of a pass
IndexOrder(nn) == [k \in range(nn) |-> k]

\* every permutation of range(n)
Permutations0(nn) ==
    {f \in [range(nn) -> range(nn)] : \A a, b \in range(nn) : f[a] = f[b] => a = b}

\* lines 76-77
Enter ==
    /\ pc = "call"
    /\ work' = ListCopy(available)
    /\ finish' = AllFalse(n)
    /\ pc' = "while"
    /\ UNCHANGED <<inputVars, found, i, passes, order, is_deadlock, deadlocked,
                   message, suggestions, verdict, handlerVars>>

\* lines 78-80: a pass starts, visiting range(n) in index order
BeginPass ==
    /\ pc = "while"
    /\ found' = FALSE
    /\ i' = 0
    /\ order' = IndexOrder(n)
    /\ passes' = passes + 1
    /\ pc' = "for"
    /\ UNCHANGED <<inputVars, work, finish, is_deadlock, deadlocked, message,
                   suggestions, verdict, handlerVars>>

\* lines 81-84: the body of the for loop for the process at position i
Visit ==
    /\ pc = "for"
    /\ i < n
    /\ LET p == order[i] IN
        IF CanFinish(finish, request, work, m, p)
        THEN LET r == Release(allocation, request, available, work, finish, m, p) IN
             /\ allocation' = r.allocation
             /\ request' = r.request
             /\ available' = r.available
             /\ work' = r.work
             /\ finish' = r.finish
             /\ found' = r.found
        ELSE UNCHANGED <<allocation, request, available, work, finish, found>>
    /\ i' = i + 1
    /\ UNCHANGED <<n, m, passes, order, pc, is_deadlock, deadlocked, message,
                   suggestions, verdict, handlerVars>>

\* lines 85-86: the end of a pass
EndPass ==
    /\ pc = "for"
    /\ i >= n
    /\ pc' = IF LoopAgain(found, finish) THEN "while" ELSE "ret"
    /\ UNCHANGED <<inputVars, work, finish, found, i, passes, order, is_deadlock,
                   deadlocked, message, suggestions, verdict, handlerVars>>

\* lines 87-90
Return ==
    /\ pc = "ret"
    /\ LET r == DetectReturn(Unfinished(finish, n)) IN
        /\ is_deadlock' = r.is_deadlock
        /\ deadlocked' = r.deadlocked
        /\ message' = r.message
    /\ pc' = "returned"
    /\ UNCHANGED <<inputVars, work, finish, found, i, passes, order, suggestions,
                   verdict, handlerVars>>

\* index, line 166: suggest_resolution(deadlocked, allocation, request_matrix)
Suggest ==
    /\ pc = "returned"
    /\ suggestions' = suggest_resolution(deadlocked, allocation, request)
    /\ pc' = "done"
    /\ UNCHANGED <<inputVars, detectVars, verdict, handlerVars>>

\* a pass that visits range(n) in an arbitrary order, chosen anew for each pass
BeginPassAnyOrder ==
    /\ pc = "while"
    /\ found' = FALSE
    /\ i' = 0
    /\ order' \in Permutations0(n)
    /\ passes' = passes + 1
    /\ pc' = "for"
    /\ UNCHANGED <<inputVars, work, finish, is_deadlock, deadlocked, message,
                   suggestions, verdict, handlerVars>>

Next == Enter \/ BeginPass \/ Visit \/ EndPass \/ Return \/ Suggest

Spec == Init /\ [][Next]_vars


\* the fixed-point computation with every pass free to visit in any order
NextAnyOrder == Enter \/ BeginPassAnyOrder \/ Visit \/ EndPass \/ Return \/ Suggest

SpecAnyOrder == Init /\ [][NextAnyOrder]_vars

----------------------------------------------------------------------------
(* Properties of detect_deadlock and of the victim heuristic *)

Returned == pc \in {"returned", "done"}

Listed == {deadlocked[x] : x \in DOMAIN deadlocked}

\* C1: whatever order each pass visits the processes in, the list of
\* unfinished processes at return is the one the index-order loop of
\* detect_deadlock returns for the same arguments.
C1_OrderIndependent ==
    Returned =>
        deadlocked = detect_deadlock(n, m, allocation, request, available).deadlocked

\* a run that visited its last pass out of index order, finished some
\* process and left another deadlocked
C1_Witness ==
    /\ pc = "done"
    /\ order # IndexOrder(n)
    /\ len(deadlocked) > 0
    /\ \E p \in range(n) : finish[p]

\* sum of allocation[k][j] over the processes k < upto that are in F
RECURSIVE HeldBy(_, _, _)
HeldBy(F, j, upto) ==
    IF upto = 0 THEN 0
    ELSE HeldBy(F, j, upto - 1) + (IF (upto - 1) \in F THEN allocation[upto - 1][j] ELSE 0)

\* F is closed under the rule "p joins F when its request fits in available
\* plus what the members of F hold"
ClosedUnderRule(F) ==
    \A p \in range(n) :
        (\A j \in range(m) : request[p][j] <= available[j] + HeldBy(F, j, n)) => p \in F

\* the least closed set: the processes that are in every closed set
LeastClosed ==
    {p \in range(n) : \A F \in SUBSET range(n) : ClosedUnderRule(F) => p \in F}

\* C2: at return the deadlocked list holds, once each, exactly the processes
\* outside the least closed set; every listed process has a request that
\* exceeds the final work, every other process was finished, and is_deadlock
\* is true exactly when the list is not empty.
C2_LeastFixedPoint ==
    Returned =>
        /\ ClosedUnderRule(LeastClosed)
        /\ Listed = range(n) \ LeastClosed
        /\ len(deadlocked) = Cardinality(Listed)
        /\ \A p \in Listed : \E j \in range(m) : request[p][j] > work[j]
        /\ \A p \in range(n) \ Listed : finish[p]
        /\ is_deadlock <=> (len(deadlocked) > 0)

\* a call that finished a process, ran a further pass and found a deadlock
C2_Witness ==
    /\ pc = "done"
    /\ is_deadlock
    /\ passes >= 2
    /\ \E p \in range(n) : finish[p]

\* the victim named by the recommendation
Victim == suggestions[3][2]

\* C4: for the list detect_deadlock returned, the recommended victim is a
\* listed process of minimal allocation row sum, and the smallest index among
\* the listed processes of that sum.
C4_VictimOfDetected ==
    (pc = "done" /\ len(deadlocked) > 0) =>
        /\ Victim \in Listed
        /\ \A q \in Listed : sum(allocation[Victim]) <= sum(allocation[q])
        /\ \A q \in Listed : sum(allocation[q]) = sum(allocation[Victim]) => Victim <= q

\* two deadlocked processes tie on a non-zero minimal row sum
C4_Witness ==
    /\ pc = "done"
    /\ len(deadlocked) > 1
    /\ sum(allocation[Victim]) > 0
    /\ \E q \in Listed : q # Victim /\ sum(allocation[q]) = sum(allocation[Victim])

\* C6: with no processes or no resource classes, detect_deadlock returns
\* is_deadlock = False and an empty list.
C6_TrivialState ==
    (Returned /\ (n = 0 \/ m = 0)) => (~is_deadlock /\ len(deadlocked) = 0)

\* processes but no resource classes
C6_Witness == pc = "done" /\ n > 0 /\ m = 0

\* C7: work starts equal to available, no step of the loop lowers a component
\* of work, and no step clears a finish flag.
C7_Monotone ==
    [][/\ pc = "call" => work' = available
       /\ pc # "call" =>
            /\ \A j \in range(m) : work'[j] >= work[j]
            /\ \A p \in range(n) : finish[p] => finish'[p]]_vars

\* a finished process released units: work grew above available
C7_Witness ==
    /\ pc = "for"
    /\ \E j \in range(m) : work[j] > available[j]
    /\ \E p \in range(n) : finish[p]

\* C8 as stated: the loop performs at most n passes, the last one included.
C8_AtMostNPasses == passes <= n

\* C8, amended: the loop performs at most n + 1 passes, the last one that marks
\* no process included, and a pass visits at most n processes.  Every step
\* raises (passes, position in the pass), so the call terminates.
C8_AtMostNPlusOnePasses == passes <= n + 1 /\ i <= n

\* every one of n = MaxN processes was finished in a pass of its own, and a
\* last pass found nothing
C8_Witness == pc = "done" /\ n >= 2 /\ passes = n + 1

\* C9: no step of the call changes the caller's allocation, request or
\* available; work and finish are the only lists that change.
C9_ArgumentsUnchanged ==
    [][allocation' = allocation /\ request' = request /\ available' = available]_vars

\* the call is over, work has moved away from available
C9_Witness ==
    /\ pc = "done"
    /\ work # available
    /\ \E p \in range(n) : finish[p] /\ sum(allocation[p]) > 0

----------------------------------------------------------------------------
(* suggest_resolution as a function of any list of process indices *)

\* every list of k distinct indices of range(nn)
ListsOfLength(k, nn) ==
    {f \in [range(k) -> range(nn)] : \A a, b \in range(k) : f[a] = f[b] => a = b}

IndexLists(nn) == UNION {ListsOfLength(k, nn) : k \in 0 .. nn}

InitSuggest ==
    /\ \E nn \in 0 .. MaxN, mm \in 0 .. MaxM :
        \E cells \in CellsUpTo(nn * mm, MaxUnits) :
            /\ n = nn /\ m = mm
            /\ allocation = MatrixOf(cells, nn, mm, 0)
            /\ request = [p \in range(nn) |-> [j \in range(mm) |-> 0]]
            /\ available = [j \in range(mm) |-> 0]
            /\ deadlocked \in IndexLists(nn)
    /\ work = EmptyList /\ finish = EmptyList /\ found = FALSE /\ i = 0
    /\ passes = 0 /\ order = EmptyList
    /\ is_deadlock = FALSE /\ message = <<>> /\ suggestions = <<>>
    /\ NoValidation /\ NoHandler
    /\ pc = "suggest_call"

\* lines 92-104 applied to the list
SuggestForList ==
    /\ pc = "suggest_call"
    /\ suggestions' = suggest_resolution(deadlocked, allocation, request)
    /\ pc' = "suggested"
    /\ UNCHANGED <<inputVars, detectVars, verdict, handlerVars>>

NextSuggest == SuggestForList

SpecSuggest == InitSuggest /\ [][NextSuggest]_vars

\* C10: for a non-empty list of process indices in any order, the victim is
\* the smallest index among the listed processes of minimal allocation row sum.
C10_SmallestIndexAnyOrder ==
    (pc = "suggested" /\ len(deadlocked) > 0) =>
        /\ Victim \in Listed
        /\ \A q \in Listed : sum(allocation[Victim]) <= sum(allocation[q])
        /\ \A q \in Listed : sum(allocation[q]) = sum(allocation[Victim]) => Victim <= q

----------------------------------------------------------------------------
(* validate_inputs as a function of any arguments *)

Max0(a) == IF a < 0 THEN 0 ELSE a

\* a list of the given length, zero but for one entry: nowhere (at = -1) or v at index at
ListWithEntry(length, at, v) == [x \in range(length) |-> IF x = at THEN v ELSE 0]

\* lists of about cols entries: one short, exact or one long, with at most one
\* entry that is not zero, negative or positive
ListsAbout(cols) ==
    {ListWithEntry(q[1], q[2], q[3]) :
        q \in {r \in ((Max0(cols - 1)) .. (cols + 1)) \X (-1 .. cols) \X {-1, 1} :
                 /\ r[2] < r[1]
                 /\ r[2] = -1 => r[3] = 1}}

\* the all-zero row of exactly cols entries
ZeroRow(cols) == ListWithEntry(cols, -1, 1)

\* matrices of about rows x cols: one row short, exact or one row long, with
\* at most one row that is not the zero row of cols entries
MatricesAbout(rows, cols) ==
    {[p \in range(q[1]) |-> IF p = q[2] THEN q[3] ELSE ZeroRow(cols)] :
        q \in {r \in ((Max0(rows - 1)) .. (rows + 1)) \X (-1 .. rows) \X ListsAbout(cols) :
                 /\ r[2] < r[1]
                 /\ r[2] = -1 => r[3] = ZeroRow(cols)}}

InitValidate ==
    /\ \E nn \in -1 .. ShapeN, mm \in -1 .. ShapeM :
        /\ n = nn /\ m = mm
        /\ allocation \in MatricesAbout(Max0(nn), Max0(mm))
        /\ request \in MatricesAbout(Max0(nn), Max0(mm))
        /\ available \in ListsAbout(Max0(mm))
    /\ NotCalled /\ NoValidation /\ NoHandler
    /\ pc = "validate_call"

\* lines 47-60 applied to the arguments
Validate ==
    /\ pc = "validate_call"
    /\ verdict' = validate_inputs(n, m, allocation, request, available)
    /\ pc' = "validated"
    /\ UNCHANGED <<inputVars, detectVars, suggestions, handlerVars>>

NextValidate == Validate

SpecValidate == InitValidate /\ [][NextValidate]_vars

ShapeIs(mat, rows, cols) == len(mat) = rows /\ \A r \in DOMAIN mat : len(mat[r]) = cols

HasNegativeEntry(mat) == \E r \in DOMAIN mat : \E c \in DOMAIN mat[r] : mat[r][c] < 0

\* the checks that fail for the arguments, numbered in the order of the contract
FailingChecks ==
    {k \in 1 .. 5 :
        \/ k = 1 /\ ~ShapeIs(allocation, n, m)
        \/ k = 2 /\ ~ShapeIs(request, n, m)
        \/ k = 3 /\ len(available) # m
        \/ k = 4 /\ (HasNegativeEntry(allocation) \/ HasNegativeEntry(request))
        \/ k = 5 /\ \E x \in DOMAIN available : available[x] < 0}

ReasonOf(k) ==
    CASE k = 1 -> "Allocation matrix must be n x m."
      [] k = 2 -> "Request matrix must be n x m."
      [] k = 3 -> "Available vector must have m elements."
      [] k = 4 -> "Values must be non-negative."
      [] k = 5 -> "Available values must be non-negative."

\* C3: validate_inputs returns (True, "") exactly when no check fails, and
\* otherwise False with the non-empty reason of the first failing check.
C3_FirstFailingCheck ==
    pc = "validated" =>
        IF FailingChecks = {}
        THEN verdict = <<TRUE, "">>
        ELSE LET first == CHOOSE k \in FailingChecks : \A o \in FailingChecks : k <= o
             IN verdict = <<FALSE, ReasonOf(first)>> /\ verdict[2] # ""

\* the shapes are right, available has the wrong length and an entry of
\* request is negative: two checks fail, the earlier one is reported
C3_Witness ==
    /\ pc = "validated"
    /\ {3, 4} \subseteq FailingChecks
    /\ verdict = <<FALSE, ReasonOf(3)>>

----------------------------------------------------------------------------
(* index: the handler of GET and POST requests on "/" *)

\* Form fields are texts, sequences of characters.
DigitChars == {"0", "1", "2", "3", "4", "5", "6", "7", "8", "9"}

DigitValue(c) ==
    CASE c = "0" -> 0 [] c = "1" -> 1 [] c = "2" -> 2 [] c = "3" -> 3 [] c = "4" -> 4
      [] c = "5" -> 5 [] c = "6" -> 6 [] c = "7" -> 7 [] c = "8" -> 8 [] c = "9" -> 9

Signed(t) == Len(t) > 0 /\ t[1] \in {"-", "+"}

Unsigned(t) == IF Signed(t) THEN Tail(t) ELSE t

\* int(text) succeeds on an optional sign followed by at least one digit
\* (texts with blanks or underscores are not among the modelled ones) and
\* raises ValueError on anything else
IsIntText(t) ==
    /\ Len(Unsigned(t)) > 0
    /\ \A k \in 1 .. Len(Unsigned(t)) : Unsigned(t)[k] \in DigitChars

RECURSIVE DigitsValue(_, _)
DigitsValue(t, k) ==
    IF k = 0 THEN 0 ELSE 10 * DigitsValue(t, k - 1) + DigitValue(t[k])

int(t) ==
    IF Len(t) > 0 /\ t[1] = "-"
    THEN 0 - DigitsValue(Unsigned(t), Len(Unsigned(t)))
    ELSE DigitsValue(Unsigned(t), Len(Unsigned(t)))

\* lines 154-158: some int(...) of the parse raises ValueError.  The cell
\* fields are read only once n and m are parsed, for range(n) x range(m).
ParseRaises(frm) ==
    \/ ~IsIntText(frm.n)
    \/ ~IsIntText(frm.m)
    \/ \E p \in range(int(frm.n)) : \E j \in range(int(frm.m)) :
          ~IsIntText(frm.alloc[p][j]) \/ ~IsIntText(frm.req[p][j])
    \/ \E j \in range(int(frm.m)) : ~IsIntText(frm.avail[j])

\* lines 154-158: the parsed arguments
Parsed(frm) ==
    LET nn == int(frm.n)
        mm == int(frm.m)
    IN [n |-> nn, m |-> mm,
        allocation |-> [p \in range(nn) |-> [j \in range(mm) |-> int(frm.alloc[p][j])]],
        request |-> [p \in range(nn) |-> [j \in range(mm) |-> int(frm.req[p][j])]],
        available |-> [j \in range(mm) |-> int(frm.avail[j])]]

\* lines 119-126: one more row in the history table.  The id is the row's
\* position; the timestamp column is left out, nothing reads it.
save_to_db(hist, nn, mm, alloc, req, avail, res, sugg) ==
    Append0(hist, <<nn, mm, alloc, req, avail, res, sugg>>)

\* lines 150-170 with save_to_db called for a rejected state as well
index_saving_rejected(frm, hist) ==
    IF ParseRaises(frm)
    THEN [result |-> <<"Invalid input. Enter integers only.">>, suggestions |-> None,
          history |-> hist, calls |-> {}]
    ELSE LET a == Parsed(frm)
             v == validate_inputs(a.n, a.m, a.allocation, a.request, a.available)
         IN IF ~v[1]
            THEN [result |-> <<"Input error: ", v[2]>>, suggestions |-> None,
                  history |-> save_to_db(hist, a.n, a.m, a.allocation, a.request,
                                         a.available, <<"Input error: ", v[2]>>, None),
                  calls |-> {"validate_inputs", "save_to_db"}]
            ELSE LET d == detect_deadlock(a.n, a.m, a.allocation, a.request, a.available)
                     sg == suggest_resolution(d.deadlocked, a.allocation, a.request)
                 IN [result |-> d.message, suggestions |-> sg,
                     history |-> save_to_db(hist, a.n, a.m, a.allocation, a.request,
                                            a.available, d.message, sg),
                     calls |-> {"validate_inputs", "detect_deadlock",
                                "suggest_resolution", "save_to_db"}]

\* lines 152-170, the POST branch: what is rendered, the history table after
\* the request and the functions that were called
index(frm, hist) ==
    IF ParseRaises(frm)
    THEN [result |-> <<"Invalid input. Enter integers only.">>, suggestions |-> None,
          history |-> hist, calls |-> {}]
    ELSE LET a == Parsed(frm)
             v == validate_inputs(a.n, a.m, a.allocation, a.request, a.available)
         IN IF ~v[1]
            THEN [result |-> <<"Input error: ", v[2]>>, suggestions |-> None,
                  history |-> hist, calls |-> {"validate_inputs"}]
            ELSE LET d == detect_deadlock(a.n, a.m, a.allocation, a.request, a.available)
                     sg == suggest_resolution(d.deadlocked, a.allocation, a.request)
                 IN [result |-> d.message, suggestions |-> sg,
                     history |-> save_to_db(hist, a.n, a.m, a.allocation, a.request,
                                            a.available, d.message, sg),
                     calls |-> {"validate_inputs", "detect_deadlock",
                                "suggest_resolution", "save_to_db"}]

\* The texts a form is filled with
NTexts == {<<"-", "1">>, <<"0">>, <<"1">>, <<"x">>, <<>>}
MTexts == {<<"-", "1">>, <<"0">>, <<"1">>, <<"x">>}
CellTexts == {<<"0">>, <<"1">>, <<"2">>, <<"-", "1">>, <<"x">>, <<>>}

\* the forms: n and m, and every cell field the handler reads for them
Forms ==
    UNION {
        LET rows == IF IsIntText(tn) /\ IsIntText(tm) THEN Max0(int(tn)) ELSE 0
            cols == IF IsIntText(tn) /\ IsIntText(tm) THEN Max0(int(tm)) ELSE 0
        IN [n : {tn}, m : {tm},
            alloc : [range(rows) -> [range(cols) -> CellTexts]],
            req : [range(rows) -> [range(cols) -> CellTexts]],
            avail : [range(cols) -> CellTexts]] :
        tn \in NTexts, tm \in MTexts}

InitIndex ==
    /\ n = 0 /\ m = 0
    /\ allocation = EmptyList /\ request = EmptyList /\ available = EmptyList
    /\ NotCalled /\ NoValidation
    /\ form = <<>> /\ history = EmptyList /\ result = None /\ calls = {}
    /\ pc = "idle"

\* a GET request: lines 150-151 and 170
Get ==
    /\ pc = "idle"
    /\ result' = None
    /\ suggestions' = None
    /\ calls' = {}
    /\ UNCHANGED <<inputVars, detectVars, verdict, form, history, pc>>

\* a POST request arrives: lines 150-152.  A request that adds a row is
\* submitted only while the table holds fewer than MaxHist rows.
Post ==
    /\ pc = "idle"
    /\ \E f \in Forms :
        /\ len(history) < MaxHist \/ index(f, history).history = history
        /\ form' = f
    /\ result' = None
    /\ suggestions' = None
    /\ calls' = {}
    /\ pc' = "post"
    /\ UNCHANGED <<inputVars, detectVars, verdict, history>>

\* lines 153-170 for the submitted form; the request and its form end with
\* the response
Handle ==
    /\ pc = "post"
    /\ LET r == index(form, history) IN
        /\ result' = r.result
        /\ suggestions' = r.suggestions
        /\ history' = r.history
        /\ calls' = r.calls
    /\ form' = <<>>
    /\ pc' = "idle"
    /\ UNCHANGED <<inputVars, detectVars, verdict>>

NextIndex == Get \/ Post \/ Handle

SpecIndex == InitIndex /\ [][NextIndex]_vars

\* the submitted form fails integer parsing, or its parsed state fails validate_inputs
Rejected(frm) ==
    \/ ParseRaises(frm)
    \/ ~validate_inputs(Parsed(frm).n, Parsed(frm).m, Parsed(frm).allocation,
                        Parsed(frm).request, Parsed(frm).available)[1]

ErrorResult(res) ==
    /\ res # None
    /\ res[1] \in {"Invalid input. Enter integers only.", "Input error: "}

\* C5: handling a rejected request calls none of detect_deadlock,
\* suggest_resolution and save_to_db, leaves the history table as it was,
\* renders an error result and leaves the handler ready for the next request.
C5_RejectedRequest ==
    [][(pc = "post" /\ Rejected(form)) =>
          /\ history' = history
          /\ calls' \cap {"detect_deadlock", "suggest_resolution", "save_to_db"} = {}
          /\ ErrorResult(result')
          /\ suggestions' = None
          /\ pc' = "idle"]_vars

\* a rejected request was handled after an accepted one: the table still
\* holds the accepted request's row
C5_Witness ==
    /\ pc = "idle"
    /\ ErrorResult(result)
    /\ calls = {"validate_inputs"}
    /\ len(history) > 0

====
